---- MODULE Spec2Model ----
(***************************************************************************)
(* The black-hole canvas renderer of BlackHolePage (src/unnamed/part_000): *)
(* the useEffect body, its Particle class, the image-load callbacks, the   *)
(* requestAnimationFrame loop, the resize and Explore listeners and the    *)
(* effect's cleanup.                                                       *)
(*                                                                         *)
(* Numbers.  JavaScript numbers are modelled in fixed point:               *)
(*   - pixel quantities (x, y, size, distance, centerX, centerY) in units  *)
(*     of 1/PxScale pixel;                                                 *)
(*   - Math.random() values in units of 1/RandScale;                       *)
(*   - alpha, speed, angularSpeed, spinSpeed, angle, rotation in units of  *)
(*     1/FineScale;                                                        *)
(*   - Math.cos / Math.sin results in units of 1/TrigScale.                *)
(* A division by zero yields Infinity or NaN in JavaScript; the sprite     *)
(* carries two flags, distNaN (distance is NaN) and posNaN (angle, x and   *)
(* y are not finite), and every comparison with a NaN is false.            *)
(***************************************************************************)
EXTENDS Integers, Sequences, FiniteSets

\* ------------------------------------------------------------ constants
blackHoleRadius == 50
trailLength == 20
MaxParticles == 8
PerImage == 2
NumStars == 500
NumImages == 4
TwoPi == 628318

PxScale == 100
RandScale == 100
FineScale == 100000
TrigScale == 100

\* ------------------------------------------------------------ bounds
\* Frames rendered in the lifecycle specification (handles 1..MaxHandle).
MaxHandle == 3
\* Frames rendered in the sprite specification.
MaxTicks == 22

\* Frames rendered in the update specification.
MaxUpdates == 6

\* window.innerWidth x window.innerHeight, in pixels.
Viewports == { <<200, 120>>, <<300, 200>> }

\* Positions of the random stream at which a handler may start reading, in
\* the lifecycle specification and in the sprite specification.
CoarseSeeds == { 0 }
FineSeeds == { 0, 8, 16, 24 }
\* The same for the viewport specification: a star reads four values, so the
\* four positions bring every value of the stream to every field of a star.
StarSeeds == { 0, 1, 2, 3 }

\* What Math.random() returns to the reset() of the two sprites the update
\* specification starts with, in a window of 300 x 200: x at the left edge or
\* 51 px left of the center; y at the center's height, 14 px or 20 px above
\* it (distances 150, 150.65 and 151.32 px from the left edge); the smallest
\* and the largest size; speeds 0.01, 0.013 and 0.01495.
UpdateDraws ==
  [ rx : { 0, 33 }, ry : { 40, 43, 50 }, rsize : { 0, 99 }, rrot : { 25 },
    rspin : { 50 }, rangle : { 0 }, rspeed : { 0, 60, 99 }, rang : { 0 } ]

\* ------------------------------------------------------------ numbers
RECURSIVE SqrtSearch(_, _, _)
SqrtSearch(n, lo, hi) ==
  IF lo >= hi THEN lo
  ELSE LET mid == (lo + hi + 1) \div 2
       IN  IF mid * mid <= n THEN SqrtSearch(n, mid, hi)
           ELSE SqrtSearch(n, lo, mid - 1)

\* Math.sqrt, rounded down to the grid.
Sqrt(n) == SqrtSearch(n, 0, 46340)

\* Math.sin of an angle t in 0..pi given in 1/100 rad (Bhaskara's formula).
SinHalfTurn(t) ==
  LET pi == TwoPi \div 2000
      u  == t * (pi - t)
  IN  (16 * u * TrigScale) \div (5 * pi * pi - 4 * u)

\* Math.sin of an angle a in 1/FineScale rad.
Sin(a) ==
  LET pi == TwoPi \div 2000
      c  == ((a % TwoPi) \div 1000) % (2 * pi)
  IN  IF c <= pi THEN SinHalfTurn(c) ELSE 0 - SinHalfTurn(c - pi)

\* Math.cos of an angle a in 1/FineScale rad.
Cos(a) == Sin(a + TwoPi \div 4)

\* ------------------------------------------------------------ Math.random
\* Math.random() is a pseudo-random stream.  The model's stream cycles through
\* RandomTable; a handler that draws random values starts reading it at a
\* position (seed) chosen nondeterministically.  The table is four rows of
\* the eight values one reset() consumes (x, y, size, rotation, spinSpeed,
\* angle, speed, angularSpeed):
\*   row 0: a corner of the viewport, as far from the center as can be;
\*   row 1: inside the capture radius in every viewport of Viewports;
\*   row 2: just outside the capture radius in the smallest viewport;
\*   row 3: Math.random() = 0.5 twice, the position is the center itself.
RandomTable ==
  <<  0,  0,  0, 25, 80,  0,  0, 50,
     60, 50, 99,  0, 10, 50, 96,  0,
     76, 50, 50, 75, 50, 25, 48, 99,
     50, 50, 20, 50, 60, 75, 20, 10 >>

\* The n-th value Math.random() returns to a handler that starts at seed.
Random(seed, n) == RandomTable[((seed + n) % Len(RandomTable)) + 1]

\* The eight values the k-th reset() of a handler draws, in call order.
Draw(seed, k) ==
  [ rx     |-> Random(seed, 8 * k),     ry     |-> Random(seed, 8 * k + 1),
    rsize  |-> Random(seed, 8 * k + 2), rrot   |-> Random(seed, 8 * k + 3),
    rspin  |-> Random(seed, 8 * k + 4), rangle |-> Random(seed, 8 * k + 5),
    rspeed |-> Random(seed, 8 * k + 6), rang   |-> Random(seed, 8 * k + 7) ]

\* ------------------------------------------------------------ Particle
\* reset(): every field but the image is drawn afresh; the trail is emptied.
reset(p, d, w, h, cx, cy) ==
  LET nx == (d.rx * w * PxScale) \div RandScale
      ny == (d.ry * h * PxScale) \div RandScale
  IN  [ image        |-> p.image,
        x            |-> nx,
        y            |-> ny,
        size         |-> (d.rsize * 40 * PxScale) \div RandScale + 20 * PxScale,
        alpha        |-> FineScale,
        rotation     |-> (d.rrot * TwoPi) \div RandScale,
        spinSpeed    |-> ((d.rspin * FineScale) \div RandScale - FineScale \div 2) \div 10,
        angle        |-> (d.rangle * TwoPi) \div RandScale,
        distance     |-> Sqrt((nx - cx) * (nx - cx) + (ny - cy) * (ny - cy)),
        speed        |-> (d.rspeed * 5 * FineScale) \div (1000 * RandScale) + FineScale \div 100,
        angularSpeed |-> (d.rang * 2 * FineScale) \div (100 * RandScale) + FineScale \div 100,
        trail        |-> << >>,
        distNaN      |-> FALSE,
        posNaN       |-> FALSE ]

\* new Particle(image): the field initialisers, then reset().
Particle(image, d, w, h, cx, cy) ==
  reset([ image |-> image, x |-> 0, y |-> 0, size |-> 0, alpha |-> FineScale,
          rotation |-> 0, spinSpeed |-> 0, angle |-> 0, distance |-> 0,
          speed |-> 0, angularSpeed |-> 0, trail |-> << >>,
          distNaN |-> FALSE, posNaN |-> FALSE ],
        d, w, h, cx, cy)

\* The decay taken as a fraction of the distance, distance *= 1 - speed.
NewDistanceProportional(dist, speed) ==
  dist - (dist * speed) \div FineScale

\* this.distance *= 1 - this.speed * (blackHoleRadius / this.distance), for a
\* distance that is a nonzero number: distance * (distance - speed * radius)
\* / distance, the speed term brought to pixel units.
NewDistance(dist, speed) ==
  (dist * (dist - (speed * blackHoleRadius * PxScale) \div FineScale)) \div dist

\* PushTrail with pop() for shift(): the newest snapshot is dropped.
PushTrailPop(trail, snap) ==
  LET t == Append(trail, snap)
  IN  IF Len(t) > trailLength THEN SubSeq(t, 1, Len(t) - 1) ELSE t

\* The trail after this.trail.push(snap) and the shift() of an overlong trail.
PushTrail(trail, snap) ==
  LET t == Append(trail, snap)
  IN  IF Len(t) > trailLength THEN Tail(t) ELSE t

\* Moved with the shrink test taken inclusively: distance <= 3 * radius.
MovedShrinksAtThreshold(p, cx, cy) ==
  LET dnan == p.distNaN \/ p.distance = 0
      nd   == IF dnan THEN 0 ELSE NewDistance(p.distance, p.speed)
      pnan == dnan \/ nd = 0
      na   == IF pnan THEN 0
              ELSE p.angle + (p.angularSpeed * blackHoleRadius * PxScale) \div nd
      nrot == p.rotation + p.spinSpeed
      nx   == IF pnan THEN 0 ELSE cx + (Cos(na) * nd) \div TrigScale
      ny   == IF pnan THEN 0 ELSE cy + (Sin(na) * nd) \div TrigScale
      near == ~dnan /\ nd <= blackHoleRadius * 3 * PxScale
      ns   == IF near THEN (p.size * 98) \div 100 ELSE p.size
      nal  == IF near THEN (p.alpha * 99) \div 100 ELSE p.alpha
      snap == [ x |-> nx, y |-> ny, rotation |-> nrot, size |-> ns,
                alpha |-> nal, posNaN |-> pnan ]
  IN  [ p EXCEPT !.distance = nd, !.distNaN = dnan, !.posNaN = pnan,
                 !.angle = na, !.rotation = nrot, !.x = nx, !.y = ny,
                 !.size = ns, !.alpha = nal,
                 !.trail = PushTrail(p.trail, snap) ]

\* update() up to and including the trail push (lines 116-145).
Moved(p, cx, cy) ==
  LET dnan == p.distNaN \/ p.distance = 0
      nd   == IF dnan THEN 0 ELSE NewDistance(p.distance, p.speed)
      pnan == dnan \/ nd = 0
      na   == IF pnan THEN 0
              ELSE p.angle + (p.angularSpeed * blackHoleRadius * PxScale) \div nd
      nrot == p.rotation + p.spinSpeed
      nx   == IF pnan THEN 0 ELSE cx + (Cos(na) * nd) \div TrigScale
      ny   == IF pnan THEN 0 ELSE cy + (Sin(na) * nd) \div TrigScale
      near == ~dnan /\ nd < blackHoleRadius * 3 * PxScale
      ns   == IF near THEN (p.size * 98) \div 100 ELSE p.size
      nal  == IF near THEN (p.alpha * 99) \div 100 ELSE p.alpha
      snap == [ x |-> nx, y |-> ny, rotation |-> nrot, size |-> ns,
                alpha |-> nal, posNaN |-> pnan ]
  IN  [ p EXCEPT !.distance = nd, !.distNaN = dnan, !.posNaN = pnan,
                 !.angle = na, !.rotation = nrot, !.x = nx, !.y = ny,
                 !.size = ns, !.alpha = nal,
                 !.trail = PushTrail(p.trail, snap) ]

\* The "Reset if swallowed" condition (lines 148-152).
Swallowed(q) ==
  \/ (~q.distNaN /\ q.distance < blackHoleRadius * PxScale)
  \/ q.size < 5 * PxScale
  \/ q.alpha < FineScale \div 10

\* update(): one tick of a sprite; d is what reset() draws if it is called.
update(p, d, w, h, cx, cy) ==
  LET q == Moved(p, cx, cy)
  IN  IF Swallowed(q) THEN reset(q, d, w, h, cx, cy) ELSE q

\* ------------------------------------------------------------ stars
\* The stars array is kept in run form: one run per loop of generateStars(),
\* holding the loop's count, the stream position it started at and the
\* viewport it read.  Star(run, i) is the i-th star the loop pushed.
Star(run, i) ==
  [ x     |-> (Random(run.seed, 4 * (i - 1)) * run.w * PxScale) \div RandScale,
    y     |-> (Random(run.seed, 4 * (i - 1) + 1) * run.h * PxScale) \div RandScale,
    size  |-> (Random(run.seed, 4 * (i - 1) + 2) * 1 * PxScale) \div RandScale
              + PxScale \div 2,
    alpha |-> (Random(run.seed, 4 * (i - 1) + 3) * FineScale) \div (2 * RandScale)
              + FineScale \div 2 ]

\* generateStars(): stars = [] and NumStars pushes.
generateStars(seed, w, h) ==
  << [ count |-> NumStars, seed |-> seed, w |-> w, h |-> h ] >>

\* ------------------------------------------------------------ state
VARIABLES
  phase,          \* "idle" (effect not yet run), "running", "unmounted"
  innerWidth,     \* window.innerWidth, in pixels
  innerHeight,    \* window.innerHeight, in pixels
  width,          \* let width (0 while unassigned)
  height,         \* let height
  canvasWidth,    \* canvas.width
  canvasHeight,   \* canvas.height
  centerX,        \* let centerX, in 1/PxScale pixel
  centerY,        \* let centerY
  stars,          \* let stars, in run form
  particles,      \* const particles
  imgState,       \* per image of planetUrls: "idle", "loading", "loaded", "failed"
  animationRef,   \* animationRef.current
  rafPending,     \* handles of the frame callbacks the browser still holds
  rafSeq,         \* the last handle requestAnimationFrame returned
  resizeListener, \* handleResize is attached to window
  clickListener,  \* handleExploreClick is attached to #explore-btn
  frameOps        \* the calls of the latest animate(), in order

vars == << phase, innerWidth, innerHeight, width, height, canvasWidth,
           canvasHeight, centerX, centerY, stars, particles, imgState,
           animationRef, rafPending, rafSeq, resizeListener, clickListener,
           frameOps >>

window == << innerWidth, innerHeight >>
viewport == << width, height, canvasWidth, canvasHeight, centerX, centerY >>
loop == << animationRef, rafPending, rafSeq, frameOps >>
listeners == << resizeListener, clickListener >>

Images == 1..NumImages

\* useRef(0), no effect run yet, the window at some size.
Init ==
  /\ phase = "idle"
  /\ \E v \in Viewports : innerWidth = v[1] /\ innerHeight = v[2]
  /\ width = 0 /\ height = 0
  /\ canvasWidth = 0 /\ canvasHeight = 0
  /\ centerX = 0 /\ centerY = 0
  /\ stars = << >>
  /\ particles = << >>
  /\ imgState = [ i \in Images |-> "idle" ]
  /\ animationRef = 0
  /\ rafPending = {}
  /\ rafSeq = 0
  /\ resizeListener = FALSE
  /\ clickListener = FALSE
  /\ frameOps = << >>

\* ------------------------------------------------------------ handlers
Op(name, i) == [ op |-> name, i |-> i ]

\* The forEach body with its two calls swapped: p.draw(); p.update().
RECURSIVE SpriteOpsDrawFirst(_, _)
SpriteOpsDrawFirst(i, n) ==
  IF i > n THEN << >>
  ELSE << Op("draw", i), Op("update", i) >> \o SpriteOpsDrawFirst(i + 1, n)

RECURSIVE SpriteOps(_, _)
SpriteOps(i, n) ==
  IF i > n THEN << >>
  ELSE << Op("update", i), Op("draw", i) >> \o SpriteOps(i + 1, n)

\* The calls of one animate() over a pool of n sprites (lines 258-275).
AnimateOps(n) ==
  << Op("clearRect", 0), Op("stars", 0), Op("drawBlackHole", 0) >>
    \o SpriteOps(1, n) \o << Op("requestAnimationFrame", 0) >>

\* particles.forEach((p) => p.reset()): sprite i is the i-th to draw, after
\* the `used` values the handler has drawn before.
ResetAll(ps, seed, used, w, h, cx, cy) ==
  [ i \in 1..Len(ps) |-> reset(ps[i], Draw(seed + used, i - 1), w, h, cx, cy) ]

\* The sprites that this frame's update() resets.
SwallowedNow(ps, cx, cy) ==
  { i \in 1..Len(ps) : Swallowed(Moved(ps[i], cx, cy)) }

\* particles.forEach((p) => { p.update(); p.draw(); }): a sprite that resets
\* draws after the sprites before it that reset in this frame.
UpdateAll(ps, seed, w, h, cx, cy) ==
  LET S == SwallowedNow(ps, cx, cy)
  IN  [ i \in 1..Len(ps) |->
          update(ps[i], Draw(seed, Cardinality({ j \in S : j < i })),
                 w, h, cx, cy) ]

\* The push guarded one sprite too early: particles.length < 7.
PushIfRoomBelowSeven(ps, img, d, w, h, cx, cy) ==
  IF Len(ps) < MaxParticles - 1
  THEN Append(ps, Particle(img, d, w, h, cx, cy))
  ELSE ps

\* if (particles.length < 8) particles.push(new Particle(img)).
PushIfRoom(ps, img, d, w, h, cx, cy) ==
  IF Len(ps) < MaxParticles
  THEN Append(ps, Particle(img, d, w, h, cx, cy))
  ELSE ps

RECURSIVE onloadLoop(_, _, _, _, _, _, _, _)
onloadLoop(i, ps, img, seed, w, h, cx, cy) ==
  IF i < PerImage
  THEN onloadLoop(i + 1,
                  PushIfRoom(ps, img, Draw(seed, i),
                             w, h, cx, cy),
                  img, seed, w, h, cx, cy)
  ELSE ps

\* onload with the loop running once more and no check of the pool's size.
onloadUncapped(ps, img, seed, w, h, cx, cy) ==
  ps \o [ k \in 1..(PerImage + 1) |-> Particle(img, Draw(seed, k - 1), w, h, cx, cy) ]

\* img.onload: for (let i = 0; i < 2; i++) ... (lines 205-212).
onload(ps, img, seed, w, h, cx, cy) ==
  onloadLoop(0, ps, img, seed, w, h, cx, cy)

\* resize() without its last line: the sprites are not reset.
resizeKeepsSprites(w, h, seed) ==
  /\ width' = w
  /\ height' = h
  /\ canvasWidth' = w
  /\ canvasHeight' = h
  /\ centerX' = (w * PxScale) \div 2
  /\ centerY' = (h * PxScale) \div 2
  /\ stars' = generateStars(seed, w, h)
  /\ particles' = particles

\* resize() whose generateStars() lacks its first line, stars = []: the
\* loop's pushes come after the stars that were there.
resizeAppendsStars(w, h, seed) ==
  /\ width' = w
  /\ height' = h
  /\ canvasWidth' = w
  /\ canvasHeight' = h
  /\ centerX' = (w * PxScale) \div 2
  /\ centerY' = (h * PxScale) \div 2
  /\ stars' = stars \o generateStars(seed, w, h)
  /\ particles' = ResetAll(particles, seed, 4 * NumStars, w, h,
                           (w * PxScale) \div 2, (h * PxScale) \div 2)

\* resize() for a window of w x h pixels (lines 48-57): the stars draw first,
\* four values each, then the sprites.
resize(w, h, seed) ==
  /\ width' = w
  /\ height' = h
  /\ canvasWidth' = w
  /\ canvasHeight' = h
  /\ centerX' = (w * PxScale) \div 2
  /\ centerY' = (h * PxScale) \div 2
  /\ stars' = generateStars(seed, w, h)
  /\ particles' = ResetAll(particles, seed, 4 * NumStars, w, h,
                           (w * PxScale) \div 2, (h * PxScale) \div 2)

\* animate() calling requestAnimationFrame(animate) twice: two callbacks are
\* pending after it and animationRef holds the second.
animateSchedulesTwice(ps, seed, fired, w, h, cx, cy) ==
  /\ particles' = UpdateAll(ps, seed, w, h, cx, cy)
  /\ frameOps' = AnimateOps(Len(ps))
  /\ rafSeq' = rafSeq + 2
  /\ rafPending' = (rafPending \ { fired }) \cup { rafSeq + 1, rafSeq + 2 }
  /\ animationRef' = rafSeq + 2

\* animate() over the pool ps in a viewport of w x h centered at (cx, cy),
\* fired as callback `fired` (0: called directly).
animate(ps, seed, fired, w, h, cx, cy) ==
  /\ particles' = UpdateAll(ps, seed, w, h, cx, cy)
  /\ frameOps' = AnimateOps(Len(ps))
  /\ rafSeq' = rafSeq + 1
  /\ rafPending' = (rafPending \ { fired }) \cup { rafSeq + 1 }
  /\ animationRef' = rafSeq + 1

\* A cleanup that does not cancel the pending frame.
CancelFrameSkipped == rafPending' = rafPending

\* The cleanup's cancelAnimationFrame (lines 309-311).
CancelFrame ==
  IF animationRef # 0
  THEN rafPending' = rafPending \ { animationRef }
  ELSE rafPending' = rafPending

\* ------------------------------------------------------------ actions
\* The effect body (lines 17-304): the pool is empty, the image loads start,
\* resize() runs, the listeners are attached and animate() renders frame one.
Mount(seed) ==
  /\ phase = "idle"
  /\ phase' = "running"
  /\ imgState' = [ i \in Images |-> "loading" ]
  /\ width' = innerWidth
  /\ height' = innerHeight
  /\ canvasWidth' = innerWidth
  /\ canvasHeight' = innerHeight
  /\ centerX' = (innerWidth * PxScale) \div 2
  /\ centerY' = (innerHeight * PxScale) \div 2
  /\ stars' = generateStars(seed, innerWidth, innerHeight)
  /\ resizeListener' = TRUE
  /\ animate(ResetAll(particles, seed, 4 * NumStars, innerWidth, innerHeight,
                      (innerWidth * PxScale) \div 2,
                      (innerHeight * PxScale) \div 2),
             seed, 0, innerWidth, innerHeight,
             (innerWidth * PxScale) \div 2, (innerHeight * PxScale) \div 2)
  /\ clickListener' = TRUE
  /\ UNCHANGED window

\* The browser runs a pending frame callback: animate().  Math.random() is
\* read only if a sprite resets.
Frame(SeedSet, cap) ==
  /\ rafSeq < cap
  /\ \E fired \in rafPending :
       \E seed \in IF SwallowedNow(particles, centerX, centerY) = {}
                   THEN { 0 } ELSE SeedSet :
         animate(particles, seed, fired, width, height, centerX, centerY)
  /\ UNCHANGED << phase, window, viewport, stars, imgState, listeners >>

\* The window is resized to w x h; handleResize runs if it is attached.
ResizeEvent(w, h, SeedSet) ==
  /\ innerWidth' = w
  /\ innerHeight' = h
  /\ IF resizeListener
     THEN \E seed \in SeedSet : resize(w, h, seed)
     ELSE UNCHANGED << viewport, stars, particles >>
  /\ UNCHANGED << phase, imgState, loop, listeners >>

\* handleExploreClick resetting the first sprite only.
handleExploreClickFirstOnly(seed) ==
  particles' = [ i \in 1..Len(particles) |->
                   IF i = 1
                   THEN reset(particles[i], Draw(seed, 0), width, height,
                              centerX, centerY)
                   ELSE particles[i] ]

\* handleExploreClick (lines 297-299).
handleExploreClick(seed) ==
  particles' = ResetAll(particles, seed, 0, width, height, centerX, centerY)

\* A click on #explore-btn; handleExploreClick runs if it is attached.
ExploreClick(SeedSet) ==
  /\ phase # "idle"
  /\ IF clickListener
     THEN \E seed \in IF particles = << >> THEN { 0 } ELSE SeedSet :
            handleExploreClick(seed)
     ELSE UNCHANGED particles
  /\ UNCHANGED << phase, window, viewport, stars, imgState, loop, listeners >>

\* Image i has loaded: img.onload.
ImgLoad(i, SeedSet) ==
  /\ imgState[i] = "loading"
  /\ imgState' = [ imgState EXCEPT ![i] = "loaded" ]
  /\ \E seed \in SeedSet :
       particles' = onload(particles, i, seed, width, height, centerX, centerY)
  /\ UNCHANGED << phase, window, viewport, stars, loop, listeners >>

\* An onerror that treats the failure as fatal and cancels the frame loop.
ImgErrorStopsLoop(i) ==
  /\ imgState[i] = "loading"
  /\ imgState' = [ imgState EXCEPT ![i] = "failed" ]
  /\ rafPending' = {}
  /\ UNCHANGED << phase, window, viewport, stars, particles, animationRef,
                  rafSeq, frameOps, listeners >>

\* Image i has failed to load: img.onerror only logs.
ImgError(i) ==
  /\ imgState[i] = "loading"
  /\ imgState' = [ imgState EXCEPT ![i] = "failed" ]
  /\ UNCHANGED << phase, window, viewport, stars, particles, loop, listeners >>

\* A cleanup that leaves the Explore click listener attached.
TeardownKeepsClick ==
  /\ phase = "running"
  /\ phase' = "unmounted"
  /\ resizeListener' = FALSE
  /\ CancelFrame
  /\ clickListener' = clickListener
  /\ UNCHANGED << window, viewport, stars, particles, imgState, animationRef,
                  rafSeq, frameOps >>

\* The effect's cleanup (lines 307-315).
Teardown ==
  /\ phase = "running"
  /\ phase' = "unmounted"
  /\ resizeListener' = FALSE
  /\ CancelFrame
  /\ clickListener' = FALSE
  /\ UNCHANGED << window, viewport, stars, particles, imgState, animationRef,
                  rafSeq, frameOps >>

\* ------------------------------------------------------------ specifications
\* The whole lifecycle, a few frames long.
Next ==
  \/ \E seed \in CoarseSeeds : Mount(seed)
  \/ Frame(CoarseSeeds, MaxHandle)
  \/ \E v \in Viewports : ResizeEvent(v[1], v[2], CoarseSeeds)
  \/ ExploreClick(CoarseSeeds)
  \/ \E i \in Images : ImgLoad(i, CoarseSeeds)
  \/ \E i \in Images : ImgError(i)
  \/ Teardown

Spec == Init /\ [][Next]_vars

\* One image loads and its sprites live for many frames in a window that
\* keeps its size.
SpriteNext ==
  \/ \E seed \in FineSeeds : Mount(seed)
  \/ Frame(FineSeeds, MaxTicks)
  \/ ExploreClick(FineSeeds)
  \/ ImgLoad(1, FineSeeds)

SpriteSpec == Init /\ [][SpriteNext]_vars

\* The viewport and its stars: one image loads, the window is resized at any
\* time, frames render, the effect is cleaned up.
ViewportNext ==
  \/ \E seed \in StarSeeds : Mount(seed)
  \/ Frame(StarSeeds, MaxHandle)
  \/ \E v \in Viewports : ResizeEvent(v[1], v[2], StarSeeds)
  \/ ImgLoad(1, StarSeeds)
  \/ Teardown

ViewportSpec == Init /\ [][ViewportNext]_vars

\* update() from chosen inputs: the effect has run in a window of 300 x 200,
\* frame one is rendered, image 1 has loaded and its onload has pushed two
\* sprites whose reset() drew values of UpdateDraws; frames follow.
UpdateInit ==
  /\ phase = "running"
  /\ innerWidth = 300 /\ innerHeight = 200
  /\ width = 300 /\ height = 200
  /\ canvasWidth = 300 /\ canvasHeight = 200
  /\ centerX = (300 * PxScale) \div 2 /\ centerY = (200 * PxScale) \div 2
  /\ stars = generateStars(0, 300, 200)
  /\ \E d1 \in UpdateDraws, d2 \in UpdateDraws :
       particles = PushIfRoom(PushIfRoom(<< >>, 1, d1, 300, 200,
                                         (300 * PxScale) \div 2,
                                         (200 * PxScale) \div 2),
                              1, d2, 300, 200,
                              (300 * PxScale) \div 2, (200 * PxScale) \div 2)
  /\ imgState = [ i \in Images |-> IF i = 1 THEN "loaded" ELSE "loading" ]
  /\ animationRef = 1
  /\ rafPending = { 1 }
  /\ rafSeq = 1
  /\ resizeListener = TRUE
  /\ clickListener = TRUE
  /\ frameOps = AnimateOps(0)

UpdateNext == Frame(FineSeeds, MaxUpdates)

UpdateSpec == UpdateInit /\ [][UpdateNext]_vars

\* ------------------------------------------------------------ claims
Pool == 1..Len(particles)

\* A sprite as reset() leaves it: empty trail, opacity 1, a distance that is a
\* number, and every drawn field inside the range reset() draws it from.
Fresh(q) ==
  /\ q.trail = << >>
  /\ q.alpha = FineScale
  /\ ~q.distNaN /\ ~q.posNaN
  /\ q.size >= 20 * PxScale /\ q.size < 60 * PxScale
  /\ q.rotation >= 0 /\ q.rotation < TwoPi
  /\ q.angle >= 0 /\ q.angle < TwoPi
  /\ 20 * q.spinSpeed >= 0 - FineScale /\ 20 * q.spinSpeed < FineScale
  /\ 1000 * q.speed >= 10 * FineScale /\ 1000 * q.speed < 15 * FineScale
  /\ 100 * q.angularSpeed >= FineScale /\ 100 * q.angularSpeed < 3 * FineScale

\* q.distance is the Euclidean distance from (q.x, q.y) to (cx, cy), rounded
\* down to the grid.
DistanceToCenter(q, cx, cy) ==
  LET sq == (q.x - cx) * (q.x - cx) + (q.y - cy) * (q.y - cy)
  IN  q.distance >= 0 /\ q.distance * q.distance <= sq
      /\ sq < (q.distance + 1) * (q.distance + 1)

\* C1: in every reachable state the sprite pool holds at most 8 sprites,
\* whatever the order of load successes, load failures, frames, resizes and
\* Explore clicks.
C1_PoolAtMostEight == Len(particles) <= MaxParticles

\* C1 witness: all four images have loaded, frames have run, the pool is full.
C1_PoolFull ==
  /\ Len(particles) = MaxParticles
  /\ rafSeq > 1
  /\ \A i \in Images : imgState[i] = "loaded"

\* C2: the cleanup leaves no frame callback pending, and from then on no step
\* (resize event, Explore click, image callback) renders or schedules a frame.
C2_NoFrameAfterTeardown ==
  [][ /\ phase' = "unmounted" => rafPending' = {}
      /\ phase = "unmounted" =>
           /\ rafSeq' = rafSeq
           /\ frameOps' = frameOps
           /\ animationRef' = animationRef ]_vars

\* C2 witness: torn down while the frame bound still allowed a frame, and a
\* resize event has fired since.
C2_TornDownEarly ==
  /\ phase = "unmounted"
  /\ rafSeq < MaxHandle
  /\ << innerWidth, innerHeight >> # << width, height >>

\* C3: once the cleanup has run, no step changes the sprite pool (an onload
\* that fires later must not push sprites).
C3_PoolFrozenAfterTeardown ==
  [][ phase = "unmounted" => particles' = particles ]_vars

\* C4: no trail ever holds more than 20 snapshots, and a frame that updates a
\* sprite whose trail holds 20 (without resetting it) removes exactly the
\* oldest snapshot, keeps the others in order and puts the new one last.
TrailsBounded == \A i \in Pool : Len(particles[i].trail) <= trailLength

FifoStep ==
  rafSeq' # rafSeq =>
    \A i \in Pool :
      (Len(particles[i].trail) = trailLength /\ particles'[i].trail # << >>) =>
        /\ Len(particles'[i].trail) = trailLength
        /\ \A k \in 1..(trailLength - 1) :
             particles'[i].trail[k] = particles[i].trail[k + 1]
        /\ particles'[i].trail[trailLength].size = particles'[i].size
        /\ particles'[i].trail[trailLength].alpha = particles'[i].alpha
        /\ particles'[i].trail[trailLength].rotation = particles'[i].rotation
        /\ particles'[i].trail[trailLength].x = particles'[i].x
        /\ particles'[i].trail[trailLength].y = particles'[i].y

C4_TrailBoundedFifo == TrailsBounded /\ [][ TrailsBounded' /\ FifoStep ]_vars

\* C4 witness: a full trail whose oldest snapshot is smaller than any sprite
\* is after its first update, so the first snapshot has been evicted.
C4_OldestEvicted ==
  \E i \in Pool :
    /\ Len(particles[i].trail) = trailLength
    /\ 100 * particles[i].trail[1].size < 98 * 20 * PxScale

\* C5: every update() of a sprite either resets it or strictly decreases its
\* distance, so that finitely many updates lead to a reset.
C5_UpdateFallsOrResets ==
  [][ rafSeq' # rafSeq =>
        \A i \in Pool :
          \/ particles'[i].trail = << >>
          \/ /\ ~particles[i].distNaN /\ ~particles'[i].distNaN
             /\ particles'[i].distance < particles[i].distance ]_vars

\* C6: a sprite that reset() has just left (its trail is empty) has a
\* distance > 0, and no update() ever divides by a zero distance.
C6_ResetDistancePositive ==
  \A i \in Pool :
    /\ ~particles[i].distNaN
    /\ particles[i].trail = << >> => particles[i].distance > 0

\* C7: an onerror adds no sprite and leaves the loop as it is, a failed image
\* stays failed (no retry, no later success), and with every image failed the
\* pool is empty while a frame stays pending until teardown, each frame
\* rendering the empty scene and scheduling the next.
AllFailed == \A i \in Images : imgState[i] = "failed"

C7_FailureOmitsAndLoopRuns ==
  [][ /\ \A i \in Images :
           /\ (imgState[i] = "loading" /\ imgState'[i] = "failed") =>
                UNCHANGED << particles, phase, loop, viewport, stars, listeners >>
           /\ imgState[i] = "failed" => imgState'[i] = "failed"
      /\ AllFailed' =>
           /\ particles' = << >>
           /\ phase' = "running" => rafPending' = { rafSeq' }
      /\ (AllFailed /\ rafSeq' # rafSeq) =>
           /\ frameOps' = AnimateOps(0)
           /\ animationRef' = rafSeq' ]_vars

\* C7 witness: every load failed and the loop has rendered up to the bound.
C7_AllFailedStillRunning ==
  /\ AllFailed
  /\ phase = "running"
  /\ rafSeq = MaxHandle
  /\ rafPending = { MaxHandle }

\* C8: a resize event while the loop runs (a step that changes the window,
\* or any step of ResizeEvent) sets width, height and the canvas to the
\* window's size and the center to their halves, replaces the stars by one
\* fresh run for that size, resets every sprite (empty trail, opacity 1,
\* distance = distance from the new position to the new center) and leaves
\* phase and pending frame alone.
C8_ResizeRecomputesAndResets ==
  [][ ( /\ phase = "running"
        /\ \/ window' # window
           \/ \E v \in Viewports : ResizeEvent(v[1], v[2], CoarseSeeds) ) =>
        /\ width' = innerWidth' /\ height' = innerHeight'
        /\ canvasWidth' = innerWidth' /\ canvasHeight' = innerHeight'
        /\ 2 * centerX' = width' * PxScale /\ 2 * centerY' = height' * PxScale
        /\ Len(stars') = 1
        /\ stars'[1].count = NumStars
        /\ stars'[1].w = width' /\ stars'[1].h = height'
        /\ Len(particles') = Len(particles)
        /\ \A i \in Pool :
             /\ particles'[i].image = particles[i].image
             /\ Fresh(particles'[i])
             /\ DistanceToCenter(particles'[i], centerX', centerY')
        /\ UNCHANGED << phase, animationRef, rafPending, rafSeq, listeners >> ]_vars

\* C8 witness: a full pool whose sprites all hold what resize() draws for
\* them, in a running loop that has rendered frames.
C8_PoolResetByResize ==
  /\ phase = "running"
  /\ rafSeq > 1
  /\ Len(particles) = MaxParticles
  /\ particles = ResetAll(particles, 0, 4 * NumStars, width, height,
                          centerX, centerY)

\* C9: an Explore click while mounted resets every sprite in that step and
\* changes nothing else: pool size and images, stars, viewport, window,
\* image states, listeners and the frame loop stay as they are.
C9_ExploreResetsAll ==
  [][ (phase = "running" /\ ExploreClick(CoarseSeeds)) =>
        /\ Len(particles') = Len(particles)
        /\ \A i \in Pool :
             /\ particles'[i].image = particles[i].image
             /\ Fresh(particles'[i])
             /\ DistanceToCenter(particles'[i], centerX, centerY)
        /\ UNCHANGED << phase, window, viewport, stars, imgState, loop,
                        listeners >> ]_vars

\* C9 witness: a pool of at least four sprites, all holding what a click
\* draws for them, after frames have run.
C9_PoolResetByClick ==
  /\ phase = "running"
  /\ rafSeq > 1
  /\ Len(particles) >= 4
  /\ particles = ResetAll(particles, 0, 0, width, height, centerX, centerY)

\* C10: the cleanup detaches both listeners, and after it a resize event or
\* an Explore click (any step that is not an image callback) leaves viewport,
\* center, stars and every sprite unchanged.
C10_ListenersDetached ==
  [][ /\ phase' = "unmounted" => (~resizeListener' /\ ~clickListener')
      /\ (phase = "unmounted" /\ imgState' = imgState) =>
           UNCHANGED << viewport, stars, particles >> ]_vars

\* C10 witness: torn down with sprites that have moved, and the window has
\* been resized since without the renderer following.
C10_ResizeIgnored ==
  /\ phase = "unmounted"
  /\ << innerWidth, innerHeight >> # << width, height >>
  /\ \E i \in Pool : particles[i].trail # << >>

\* C11: frames never overlap.  In every state at most one frame callback is
\* pending and it is the one animationRef holds; while the effect is mounted
\* exactly that one is pending.  A step puts a callback in the browser's list
\* only by running animate(), whose last call is the one and only
\* requestAnimationFrame of the frame, and the frame that ran was the pending
\* one (or the effect's direct call).  Removing animationRef's callback from
\* the list leaves the list empty.
OnePendingFrame ==
  /\ Cardinality(rafPending) <= 1
  /\ rafPending \subseteq { animationRef }
  /\ phase = "running" => rafPending = { animationRef }
  /\ phase = "idle" => animationRef = 0
  /\ rafPending \ { animationRef } = {}

ScheduledLast ==
  (rafPending' # rafPending /\ rafPending' # {}) =>
    /\ rafSeq' = rafSeq + 1
    /\ rafPending' = { rafSeq' }
    /\ animationRef' = rafSeq'
    /\ rafPending = IF phase = "idle" THEN {} ELSE { animationRef }
    /\ frameOps' # << >>
    /\ \A k \in 1..Len(frameOps') :
         frameOps'[k].op = "requestAnimationFrame" <=> k = Len(frameOps')

C11_FramesNeverOverlap ==
  OnePendingFrame /\ [][ OnePendingFrame' /\ ScheduledLast ]_vars

\* C11 witness: the loop has chained frames up to the bound over a pool with
\* sprites, and its one pending callback is the one animationRef holds.
C11_ChainedFrames ==
  /\ phase = "running"
  /\ rafSeq = MaxHandle
  /\ animationRef = MaxHandle
  /\ rafPending = { animationRef }
  /\ Len(particles) >= 2
  /\ Len(frameOps) = 4 + 2 * Len(particles)

\* C12: from the effect's run on, in every state and after any number of
\* resize events, the star set holds exactly 500 stars and every star lies
\* in the current viewport, 0 <= x < width and 0 <= y < height, with its size
\* in [0.5, 1.5] and its alpha in [0.5, 1.0].
RECURSIVE StarCount(_)
StarCount(runs) ==
  IF runs = << >> THEN 0 ELSE Head(runs).count + StarCount(Tail(runs))

StarInViewport(st) ==
  /\ 0 <= st.x /\ st.x < width * PxScale
  /\ 0 <= st.y /\ st.y < height * PxScale
  /\ 2 * st.size >= PxScale /\ 2 * st.size <= 3 * PxScale
  /\ 2 * st.alpha >= FineScale /\ st.alpha <= FineScale

C12_StarsFillViewport ==
  phase # "idle" =>
    /\ StarCount(stars) = NumStars
    /\ \A r \in 1..Len(stars) :
         \A i \in 1..stars[r].count : StarInViewport(Star(stars[r], i))

\* C12 witness: the window has been resized after the last frame (the pool
\* holds what resize() draws for it) and one of the stars it drew lies
\* in the last hundredth of the viewport's width.
C12_StarsAfterResize ==
  /\ phase = "running"
  /\ rafSeq = MaxHandle
  /\ Len(particles) = 2
  /\ Len(stars) = 1
  /\ particles = ResetAll(particles, stars[1].seed, 4 * NumStars, width,
                          height, centerX, centerY)
  /\ \E i \in 1..NumStars :
       Star(stars[1], i).x = (99 * width * PxScale) \div RandScale

\* C13: one update() of a sprite whose distance d is a number > 0 sets the
\* distance to d - speed * blackHoleRadius, and the swallow check reads that
\* new distance: below the capture radius the sprite is reset, and a sprite
\* that is not reset holds the new distance.  From d = 150 px and speed 0.01
\* the new distance is 149.5 px and the sprite is not reset.
C13_DistanceFallsBySpeedTimesRadius ==
  [][ rafSeq' # rafSeq =>
        \A i \in Pool :
          LET p  == particles[i]
              q  == particles'[i]
              nd == p.distance - (p.speed * blackHoleRadius * PxScale) \div FineScale
          IN  (~p.distNaN /\ p.distance > 0) =>
                /\ nd < blackHoleRadius * PxScale => q.trail = << >>
                /\ q.trail # << >> => (~q.distNaN /\ q.distance = nd)
                /\ (p.distance = 150 * PxScale /\ 100 * p.speed = FineScale) =>
                     /\ 2 * q.distance = 299 * PxScale
                     /\ Len(q.trail) = Len(p.trail) + 1 ]_vars

\* C13 witness: a sprite one update after its reset at 150 px from the
\* center with speed 0.01: its distance is 149.5 px.
C13_FellHalfAPixel ==
  \E i \in Pool :
    /\ Len(particles[i].trail) = 1
    /\ 100 * particles[i].speed = FineScale
    /\ 2 * particles[i].distance = 299 * PxScale
    /\ 100 * particles[i].alpha = 99 * FineScale

\* C14: every animate() makes its calls in this order: clearRect, the stars,
\* drawBlackHole, then for each sprite that is in the pool when the frame
\* starts, in pool order, update() and then draw(), and requestAnimationFrame
\* last.  Each of those sprites is updated once and drawn once: after the
\* frame it is what one update() makes of it.  A frame callback is one step:
\* the pool's size, the image states, the window, the viewport, the stars and
\* the listeners are after it what they were before it.
Calls(ops, c) == Cardinality({ k \in 1..Len(ops) : ops[k] = c })

C14_FrameOrder ==
  [][ rafSeq' # rafSeq =>
        LET n   == Len(particles)
            ops == frameOps'
        IN  /\ Len(ops) = 2 * n + 4
            /\ ops[1] = Op("clearRect", 0)
            /\ ops[2] = Op("stars", 0)
            /\ ops[3] = Op("drawBlackHole", 0)
            /\ \A i \in 1..n :
                 /\ ops[2 * i + 2] = Op("update", i)
                 /\ ops[2 * i + 3] = Op("draw", i)
                 /\ Calls(ops, Op("update", i)) = 1
                 /\ Calls(ops, Op("draw", i)) = 1
            /\ ops[2 * n + 4] = Op("requestAnimationFrame", 0)
            /\ Calls(ops, Op("requestAnimationFrame", 0)) = 1
            /\ Len(particles') = n
            /\ \A i \in 1..n :
                 IF Swallowed(Moved(particles[i], centerX, centerY))
                 THEN particles'[i].trail = << >>
                 ELSE particles'[i] = Moved(particles[i], centerX, centerY)
            /\ phase = "running" =>
                 UNCHANGED << phase, window, viewport, stars, imgState,
                              listeners >> ]_vars

\* C14 witness: the latest frame ran over the full pool, and a sprite that
\* an earlier frame had updated was updated again by it.
C14_FullPoolFrame ==
  /\ Len(particles) = MaxParticles
  /\ Len(frameOps) = 2 * MaxParticles + 4
  /\ frameOps[2 * MaxParticles + 3] = Op("draw", MaxParticles)
  /\ \E i \in Pool : Len(particles[i].trail) >= 2

\* C15: the pool only grows.  No step removes a sprite or changes the image
\* of a sprite that is in the pool; a load success of image i appends exactly
\* 2 sprites that reference image i, and no other step changes the pool's
\* size; in every state the pool holds twice as many sprites as images have
\* loaded.
Loaded == { i \in Images : imgState[i] = "loaded" }

PoolTwiceLoaded == Len(particles) = 2 * Cardinality(Loaded)

PoolGrowsByLoads ==
  /\ Len(particles') >= Len(particles)
  /\ \A k \in Pool : particles'[k].image = particles[k].image
  /\ \A i \in Images :
       (imgState[i] # "loaded" /\ imgState'[i] = "loaded") =>
         /\ Len(particles) < MaxParticles
         /\ Len(particles') = Len(particles) + 2
         /\ particles'[Len(particles) + 1].image = i
         /\ particles'[Len(particles) + 2].image = i
  /\ Loaded' = Loaded => Len(particles') = Len(particles)

C15_PoolOnlyGrows ==
  PoolTwiceLoaded /\ [][ PoolTwiceLoaded' /\ PoolGrowsByLoads ]_vars

\* C15 witness: three images have loaded and one has failed; the pool holds
\* the six sprites of the three, pair by pair, after frames, resets and a
\* teardown.
C15_ThreePairs ==
  /\ Cardinality(Loaded) = 3
  /\ \E i \in Images : imgState[i] = "failed"
  /\ Len(particles) = 6
  /\ \A k \in 1..3 : particles[2 * k - 1].image = particles[2 * k].image
  /\ particles[1].image # particles[3].image
  /\ phase = "unmounted"
  /\ rafSeq = MaxHandle

\* C16: an update() that does not reset the sprite multiplies its size by
\* 0.98 and its opacity by 0.99 exactly when the distance it has just set is
\* a number below 3 times the capture radius (150 px); when that distance is
\* 150 px or more, or is not a number, size and opacity stay as they were.
C16_ShrinkBelowThreeRadii ==
  [][ rafSeq' # rafSeq =>
        \A i \in Pool :
          LET p == particles[i]
              q == particles'[i]
          IN  q.trail # << >> =>
                IF ~q.distNaN /\ q.distance < 3 * blackHoleRadius * PxScale
                THEN /\ q.size = (p.size * 98) \div 100
                     /\ q.alpha = (p.alpha * 99) \div 100
                ELSE /\ q.size = p.size
                     /\ q.alpha = p.alpha ]_vars

\* C16 witness: after one update one sprite is at 150 px exactly and has the
\* opacity 1 and a size reset() can draw, another is at 149.5 px and has the
\* opacity 0.99.
C16_AtAndBelowThreshold ==
  \E i \in Pool, j \in Pool :
    /\ Len(particles[i].trail) = 1
    /\ particles[i].distance = 3 * blackHoleRadius * PxScale
    /\ particles[i].alpha = FineScale
    /\ particles[i].size >= 20 * PxScale
    /\ Len(particles[j].trail) = 1
    /\ 2 * particles[j].distance = 299 * PxScale
    /\ 100 * particles[j].alpha = 99 * FineScale
    /\ particles[j].size < 20 * PxScale

\* C17: whenever update() returns, the sprite has 5 <= size <= 60 and
\* 0.1 <= opacity <= 1 and a distance that is a number >= 0; a sprite that
\* crossed a threshold in this tick (distance < 50, size < 5 or opacity
\* < 0.1) has been reset to a fresh state with an empty trail.
SizeAndOpacityInRange(q) ==
  /\ 5 * PxScale <= q.size /\ q.size <= 60 * PxScale
  /\ FineScale \div 10 <= q.alpha /\ q.alpha <= FineScale

DistanceIsNonNegative(q) == ~q.distNaN /\ q.distance >= 0

ResetIfSwallowed(p, q) ==
  Swallowed(Moved(p, centerX, centerY)) => (q.trail = << >> /\ Fresh(q))

C17_InRangeAfterUpdate ==
  [][ rafSeq' # rafSeq =>
        \A i \in Pool :
          /\ SizeAndOpacityInRange(particles'[i])
          /\ DistanceIsNonNegative(particles'[i])
          /\ ResetIfSwallowed(particles[i], particles'[i]) ]_vars

====
